---- MODULE Spec2Model ----
(***************************************************************************)
(* OptiMeal Engine: the recipe selector (OptimizationService), the weekly  *)
(* scheduler and request pipeline (MealPlannerService), the recipe filter  *)
(* (RecipeService) and the grocery optimizer (GroceryOptimizerService).    *)
(*                                                                         *)
(* Numbers.  Money is counted in mills (0.001 currency units): a recipe    *)
(* total_cost of 4.50 is 4500, a price_per_unit of 0.11 is 110, the        *)
(* default unit price 0.10 is 100.  Nutrition totals, cooking minutes and  *)
(* ingredient amounts are the integers of the data files.  The factors     *)
(* 0.8 and 1.2 of the nutrition band are compared after multiplying both   *)
(* sides by 10.  The solver's feasibility tolerance is not modelled: a     *)
(* constraint holds exactly or not at all.                                 *)
(***************************************************************************)
EXTENDS Integers, Sequences, FiniteSets, TLC

VARIABLES
    pc,                        \* position of the request inside generate_meal_plan
    user_preferences,          \* the UserPreferences of the request
    filtered_recipes,          \* result of RecipeService.filter_recipes (recipe ids)
    status,                    \* solver.Solve() status of optimize_meal_plan
    optimized_plan,            \* the Selection: sequence of <<recipe id, servings>>
    recipe_assignments,        \* scheduler: occurrences not yet placed
    assigned_recipes,          \* scheduler: 21 slots, None or a recipe id
    ingredient_usage_tracker,  \* scheduler: ingredient name -> times placed
    meal_pos,                  \* scheduler: next slot of the day-major loop
    today,                     \* << >> until date.today() is read, then <<day number>>
    daily_meals,               \* result of _create_daily_meals
    grocery_list,              \* result of calculate_grocery_list
    optimized_grocery,         \* result of optimize_grocery_list
    meal_plan,                 \* arguments handed to MealPlan(...)
    error,                     \* message of the exception that ended the run
    calls,                     \* the calls generate_meal_plan has made, in order
    price_database,            \* GroceryOptimizerService._price_database as loaded
    file_state,                \* recipes.json and prices.json on disk
    loader_pc,                 \* per request: position inside the two loaders
    load_result                \* per request and file: how its loader returned

vars == <<pc, user_preferences, filtered_recipes, status, optimized_plan,
          recipe_assignments, assigned_recipes, ingredient_usage_tracker,
          meal_pos, today, daily_meals, grocery_list, optimized_grocery,
          meal_plan, error, calls, price_database,
          file_state, loader_pc, load_result>>

\* the state of the one request whose pipeline is followed step by step
pipelinevars == <<pc, user_preferences, filtered_recipes, status, optimized_plan,
                  recipe_assignments, assigned_recipes, ingredient_usage_tracker,
                  meal_pos, today, daily_meals, grocery_list, optimized_grocery,
                  meal_plan, error, calls, price_database>>

\* the state of the data files and of the loaders of the requests
loadvars == <<file_state, loader_pc, load_result>>

\* None in a slot of assigned_recipes (recipe ids start at 1)
None == 0
\* None where a dict (a store, a price entry) is expected
NoneDict == [none |-> TRUE]

-----------------------------------------------------------------------------
(* Program constants *)

\* optimize_meal_plan(..., days: int = 7)
days == 7
\* min_meals_per_day = 3  # Breakfast, lunch, dinner
min_meals_per_day == 3
\* solver.IntVar(0, 10, ...)  # Max 10 servings per recipe
MaxServingsPerRecipe == 10
\* the nutrition band: >= target * 0.8 and <= target * 1.2, in tenths
BandLowTenths == 8
BandHighTenths == 12

-----------------------------------------------------------------------------
(* The recipe table: the records of data/recipes.json as RecipeService     *)
(* loads them.  Ingredient amounts and units are those of the file; the    *)
(* first recipe lists one ingredient three times (marinade, sauce and      *)
(* dressing) and one in kg.                                                *)

Ing(n, a, u) == [name |-> n, amount |-> a, unit |-> u]

_recipes ==
    << [id |-> "1", name |-> "Peanut Noodles",
        ingredients |-> << Ing("Soy Sauce", 20, "ml"),
                           Ing("Broccoli", 1, "kg"),
                           Ing("Peanuts", 50, "g"),
                           Ing("Soy Sauce", 10, "ml"),
                           Ing("Soy Sauce", 5, "ml") >>,
        cooking_time_min |-> 30, cuisine_type |-> "Asian",
        dietary_restrictions |-> {"vegetarian"}, allergens |-> {"nuts"},
        total_calories |-> 500, total_protein_g |-> 20,
        total_carbs_g |-> 60, total_fat_g |-> 18, total_cost |-> 3000],
       [id |-> "2", name |-> "Vegetable Stir Fry",
        ingredients |-> << Ing("Broccoli", 200, "g"),
                           Ing("Bell Pepper", 150, "g"),
                           Ing("Soy Sauce", 30, "ml") >>,
        cooking_time_min |-> 30, cuisine_type |-> "Asian",
        dietary_restrictions |-> {"vegetarian", "vegan"}, allergens |-> {},
        total_calories |-> 320, total_protein_g |-> 15,
        total_carbs_g |-> 35, total_fat_g |-> 5, total_cost |-> 3500],
       [id |-> "3", name |-> "Grilled Chicken Salad",
        ingredients |-> << Ing("Chicken Breast", 150, "g"),
                           Ing("Lettuce", 100, "g"),
                           Ing("Tomato", 120, "g") >>,
        cooking_time_min |-> 20, cuisine_type |-> "American",
        dietary_restrictions |-> {"gluten_free"}, allergens |-> {},
        total_calories |-> 420, total_protein_g |-> 45,
        total_carbs_g |-> 12, total_fat_g |-> 15, total_cost |-> 7000],
       [id |-> "4", name |-> "Chicken Rice Bake",
        ingredients |-> << Ing("Rice", 100, "g"),
                           Ing("Chicken Breast", 100, "g"),
                           Ing("Cheese", 50, "g") >>,
        cooking_time_min |-> 45, cuisine_type |-> "Mexican",
        dietary_restrictions |-> {"gluten_free"}, allergens |-> {"dairy"},
        total_calories |-> 600, total_protein_g |-> 30,
        total_carbs_g |-> 50, total_fat_g |-> 20, total_cost |-> 9000] >>

RecipeIds == 1..Len(_recipes)

-----------------------------------------------------------------------------
(* RecipeService.filter_recipes *)

\* the list comprehension [r for r in filtered_recipes if keep(r)]
Comprehension(rs, Keep(_)) ==
    LET c[i \in 0..Len(rs)] ==
            IF i = 0 THEN << >>
            ELSE IF Keep(rs[i]) THEN Append(c[i - 1], rs[i]) ELSE c[i - 1]
    IN c[Len(rs)]

filter_recipes(dietary, allergens, max_cooking_time, cuisine_types) ==
    LET all == [i \in RecipeIds |-> i]
        f1  == IF dietary # {}
               THEN LET K(r) == dietary \subseteq _recipes[r].dietary_restrictions
                    IN Comprehension(all, K)
               ELSE all
        f2  == IF allergens # {}
               THEN LET K(r) == allergens \cap _recipes[r].allergens = {}
                    IN Comprehension(f1, K)
               ELSE f1
        f3  == LET K(r) == _recipes[r].cooking_time_min <= max_cooking_time
               IN Comprehension(f2, K)
        f4  == IF cuisine_types # {}
               THEN LET K(r) == _recipes[r].cuisine_type \in cuisine_types
                    IN Comprehension(f3, K)
               ELSE f3
    IN f4

-----------------------------------------------------------------------------
(* OptimizationService.optimize_meal_plan: the integer program *)

\* sum(x[i] * coefficient(recipes[i]) for i in range(num_recipes))
WeightedSum(x, recipes, Coef(_)) ==
    LET s[i \in 0..Len(recipes)] ==
            IF i = 0 THEN 0 ELSE s[i - 1] + x[i] * Coef(_recipes[recipes[i]])
    IN s[Len(recipes)]

Protein(r)  == r.total_protein_g
Carbs(r)    == r.total_carbs_g
Fat(r)      == r.total_fat_g
Calories(r) == r.total_calories
Cost(r)     == r.total_cost
Time(r)     == r.cooking_time_min
One(r)      == 1

\* target * days if target else 0; an Optional[int] is << >> (None) or <<n>>
WeeklyTarget(target) ==
    IF target = << >> \/ target[1] = 0 THEN 0 ELSE target[1] * days

\* 1. Nutritional constraints, one macro
NutritionConstraint(x, recipes, Coef(_), weekly_target) ==
    weekly_target > 0 =>
        LET actual == WeightedSum(x, recipes, Coef)
        IN /\ 10 * actual >= BandLowTenths * weekly_target
           /\ 10 * actual <= BandHighTenths * weekly_target

\* the carbs band applied to the protein total
NutritionConstraints_CarbsOnProtein(x, recipes, prefs) ==
    /\ NutritionConstraint(x, recipes, Protein, WeeklyTarget(prefs.target_protein_g))
    /\ NutritionConstraint(x, recipes, Protein, WeeklyTarget(prefs.target_carbs_g))
    /\ NutritionConstraint(x, recipes, Fat, WeeklyTarget(prefs.target_fat_g))
    /\ NutritionConstraint(x, recipes, Calories, WeeklyTarget(prefs.target_calories))

NutritionConstraints(x, recipes, prefs) ==
    /\ NutritionConstraint(x, recipes, Protein, WeeklyTarget(prefs.target_protein_g))
    /\ NutritionConstraint(x, recipes, Carbs, WeeklyTarget(prefs.target_carbs_g))
    /\ NutritionConstraint(x, recipes, Fat, WeeklyTarget(prefs.target_fat_g))
    /\ NutritionConstraint(x, recipes, Calories, WeeklyTarget(prefs.target_calories))

\* the budget applied to each recipe's cost alone instead of to the sum
BudgetConstraint_PerRecipe(x, recipes, prefs) ==
    \A i \in 1..Len(recipes) :
        x[i] * _recipes[recipes[i]].total_cost <= prefs.weekly_budget

\* 2. Budget constraint
BudgetConstraint(x, recipes, prefs) ==
    WeightedSum(x, recipes, Cost) <= prefs.weekly_budget

\* 3. Variety constraint
VarietyConstraint(x, recipes, prefs) ==
    \A i \in 1..Len(recipes) : x[i] <= prefs.max_repeats_per_week

\* the minimum volume taken as one meal per day
MealFrequencyConstraint_OnePerDay(x, recipes) ==
    WeightedSum(x, recipes, One) >= days

\* 4. Meal frequency constraint
min_total_meals == min_meals_per_day * days

MealFrequencyConstraint(x, recipes) ==
    WeightedSum(x, recipes, One) >= min_total_meals

\* 5. Cooking time constraint
CookingTimeConstraint(x, recipes, prefs) ==
    WeightedSum(x, recipes, Time)
        <= min_meals_per_day * days * prefs.max_cooking_time_min

\* x[i] = solver.IntVar(0, 10, ...)
DecisionVectors(recipes) == [1..Len(recipes) -> 0..MaxServingsPerRecipe]

\* the constraint set handed to the solver (a conjunction: the order in
\* which the constraints were added does not matter)
Feasible(x, recipes, prefs) ==
    /\ MealFrequencyConstraint(x, recipes)
    /\ VarietyConstraint(x, recipes, prefs)
    /\ BudgetConstraint(x, recipes, prefs)
    /\ CookingTimeConstraint(x, recipes, prefs)
    /\ NutritionConstraints(x, recipes, prefs)

FeasibleSet(recipes, prefs) ==
    {x \in DecisionVectors(recipes) : Feasible(x, recipes, prefs)}

\* objective.SetCoefficient(x[i], recipes[i].total_cost); SetMinimization()
Objective(x, recipes) == WeightedSum(x, recipes, Cost)

OptimalSet(recipes, prefs) ==
    LET F == FeasibleSet(recipes, prefs)
    IN {x \in F : \A y \in F : Objective(x, recipes) <= Objective(y, recipes)}

\* what solver.Solve() can hand back: a status and, with OPTIMAL or FEASIBLE,
\* the solution values.  OPTIMAL carries a cost-minimal feasible vector;
\* FEASIBLE (the search stopped early with an incumbent) any feasible vector;
\* NOT_SOLVED (the search stopped early without one) and INFEASIBLE none.
SolveOutcomes(recipes, prefs) ==
    LET F == FeasibleSet(recipes, prefs)
        O == {x \in F : \A y \in F : Objective(x, recipes) <= Objective(y, recipes)}
    IN  {[status |-> "OPTIMAL", x |-> x] : x \in O}
        \cup {[status |-> "FEASIBLE", x |-> x] : x \in F}
        \cup (IF F = {} THEN {[status |-> "INFEASIBLE", x |-> << >>]} ELSE {})
        \cup {[status |-> "NOT_SOLVED", x |-> << >>]}

\* every recipe appended, the test `servings > 0` left out
SolutionResult_KeepsZero(x, recipes) ==
    [i \in 1..Len(recipes) |-> <<recipes[i], x[i]>>]

\* for i in range(num_recipes): if servings > 0: result.append((recipes[i], int(servings)))
SolutionResult(x, recipes) ==
    LET r[i \in 0..Len(recipes)] ==
            IF i = 0 THEN << >>
            ELSE IF x[i] > 0 THEN Append(r[i - 1], <<recipes[i], x[i]>>)
                 ELSE r[i - 1]
    IN r[Len(recipes)]

\* _relax_and_solve: prints a message and returns []
_relax_and_solve(recipes, prefs) == << >>

optimize_meal_plan(outcome, recipes, prefs) ==
    IF outcome.status = "OPTIMAL" \/ outcome.status = "FEASIBLE"
    THEN SolutionResult(outcome.x, recipes)
    ELSE _relax_and_solve(recipes, prefs)

-----------------------------------------------------------------------------
(* MealPlannerService._create_daily_meals: the weekly scheduler *)

day_names == <<"Monday", "Tuesday", "Wednesday", "Thursday", "Friday",
               "Saturday", "Sunday">>
meal_types == <<"breakfast", "lunch", "dinner">>

\* len(days) * 3
NumSlots == Len(day_names) * Len(meal_types)

\* for recipe, servings in optimized_plan: for _ in range(int(servings)): append(recipe)
ExpandAssignments(plan) ==
    LET e[i \in 0..Len(plan)] ==
            IF i = 0 THEN << >>
            ELSE e[i - 1] \o [k \in 1..plan[i][2] |-> plan[i][1]]
    IN e[Len(plan)]

\* `name in ingredient_usage_tracker`: the tracker is a dict, here a function
\* whose domain is the set of its keys
InTracker(name, tracker) == name \in DOMAIN tracker

\* _score_recipe_for_assignment
_score_recipe_for_assignment(recipe, tracker) ==
    LET ings == _recipes[recipe].ingredients
        reuse[i \in 0..Len(ings)] ==
            IF i = 0 THEN 0
            ELSE IF InTracker(ings[i].name, tracker) THEN reuse[i - 1] + 1
                 ELSE reuse[i - 1]
        reuse_bonus     == reuse[Len(ings)]
        variety_penalty == 0
        macro_alignment == 0
    IN reuse_bonus * 10 - variety_penalty * 5 + macro_alignment * 2

\* scored_recipes.append((score, i, recipe)) for i, recipe in enumerate(...)
ScoredRecipes(assignments, tracker) ==
    [i \in 1..Len(assignments) |->
        [score  |-> _score_recipe_for_assignment(assignments[i], tracker),
         i      |-> i,
         recipe |-> assignments[i]]]

\* equal scores put in reverse order of position
SortByScoreDescending_TiesReversed(scored) ==
    LET Insert(sorted, e) ==
            LET k == Cardinality({j \in 1..Len(sorted) : sorted[j].score > e.score})
            IN SubSeq(sorted, 1, k) \o <<e>> \o SubSeq(sorted, k + 1, Len(sorted))
        r[i \in 0..Len(scored)] ==
            IF i = 0 THEN << >> ELSE Insert(r[i - 1], scored[i])
    IN r[Len(scored)]

\* list.sort(key=lambda x: x[0], reverse=True): a stable sort, elements with
\* equal keys keep their order
SortByScoreDescending(scored) ==
    LET Insert(sorted, e) ==
            LET k == Cardinality({j \in 1..Len(sorted) : sorted[j].score >= e.score})
            IN SubSeq(sorted, 1, k) \o <<e>> \o SubSeq(sorted, k + 1, Len(sorted))
        r[i \in 0..Len(scored)] ==
            IF i = 0 THEN << >> ELSE Insert(r[i - 1], scored[i])
    IN r[Len(scored)]

\* scored_recipes[0] after the sort
SelectRecipe(assignments, tracker) ==
    SortByScoreDescending(ScoredRecipes(assignments, tracker))[1]

\* for ingredient in selected_recipe.ingredients: tracker[name] += 1 (or = 1)
UpdateTracker(tracker, recipe) ==
    LET ings == _recipes[recipe].ingredients
        t[i \in 0..Len(ings)] ==
            IF i = 0 THEN tracker
            ELSE LET n == ings[i].name
                     prev == t[i - 1]
                 IN IF n \in DOMAIN prev
                    THEN [prev EXCEPT ![n] = @ + 1]
                    ELSE [m \in DOMAIN prev \cup {n} |->
                             IF m = n THEN 1 ELSE prev[m]]
    IN t[Len(ings)]

\* the placed occurrence left in the pool
Pop_KeepsAll(assignments, idx) == assignments

\* recipe_assignments.pop(recipe_idx)
Pop(assignments, idx) ==
    SubSeq(assignments, 1, idx - 1) \o SubSeq(assignments, idx + 1, Len(assignments))

\* (7 - date.today().weekday()) % 7; day 0 is a Monday
Weekday(d) == d % 7

\* the conversion loop: one DailyMeals per day with the Meal of every slot
\* that is not None
ConvertDailyMeals(assigned, d) ==
    [day_idx \in 1..Len(day_names) |->
        [date  |-> d + ((day_idx - 1) + ((7 - Weekday(d)) % 7)),
         meals |-> LET m[o \in 0..Len(meal_types)] ==
                       IF o = 0 THEN << >>
                       ELSE LET meal_idx == (day_idx - 1) * 3 + o
                            IN IF meal_idx <= Len(assigned) /\ assigned[meal_idx] # None
                               THEN Append(m[o - 1],
                                           [day       |-> day_names[day_idx],
                                            meal_type |-> meal_types[o],
                                            recipe    |-> assigned[meal_idx]])
                               ELSE m[o - 1]
                   IN m[Len(meal_types)]]]

-----------------------------------------------------------------------------
(* OptimizationService.calculate_grocery_list *)

\* a dict is a sequence of [key, value] records in insertion order
DictKeys(d) == {d[i].key : i \in 1..Len(d)}
DictIndex(d, k) == CHOOSE i \in 1..Len(d) : d[i].key = k

\* ingredient_key = f"{ingredient.name} ({ingredient.unit})", kept as its two parts
IngredientKey(ingredient) == <<ingredient.name, ingredient.unit>>

\* grocery_list[key] += total_amount, or grocery_list[key] = total_amount
AddAmount(d, k, total_amount) ==
    IF k \in DictKeys(d)
    THEN [d EXCEPT ![DictIndex(d, k)].value = @ + total_amount]
    ELSE Append(d, [key |-> k, value |-> total_amount])

calculate_grocery_list(plan) ==
    LET AddRecipe(d, recipe, servings) ==
            LET ings == _recipes[recipe].ingredients
                g[j \in 0..Len(ings)] ==
                    IF j = 0 THEN d
                    ELSE AddAmount(g[j - 1], IngredientKey(ings[j]),
                                   ings[j].amount * servings)
            IN g[Len(ings)]
        l[i \in 0..Len(plan)] ==
            IF i = 0 THEN << >> ELSE AddRecipe(l[i - 1], plan[i][1], plan[i][2])
    IN l[Len(plan)]

\* total_cost = sum(recipe.total_cost * servings for recipe, servings in optimized_plan)
PlanTotal(plan, Coef(_)) ==
    LET t[i \in 0..Len(plan)] ==
            IF i = 0 THEN 0 ELSE t[i - 1] + Coef(_recipes[plan[i][1]]) * plan[i][2]
    IN t[Len(plan)]

\* _calculate_nutritional_summary
_calculate_nutritional_summary(plan) ==
    [total_protein_g |-> PlanTotal(plan, Protein),
     total_carbs_g   |-> PlanTotal(plan, Carbs),
     total_fat_g     |-> PlanTotal(plan, Fat),
     total_calories  |-> PlanTotal(plan, Calories)]

-----------------------------------------------------------------------------
(* GroceryOptimizerService *)

\* data/prices.json as written by _create_default_prices, prices in mills
Price(ing, st, u, p, sec) ==
    [ingredient |-> ing, store_id |-> st, unit |-> u, price_per_unit |-> p,
     section |-> sec]

_price_database ==
    [stores |-> << [id |-> "store_1", name |-> "FreshMart", location |-> "Downtown"],
                   [id |-> "store_2", name |-> "ValueGrocer", location |-> "Uptown"],
                   [id |-> "store_3", name |-> "Organic Plus", location |-> "Midtown"] >>,
     prices |-> << Price("Chicken Breast", "store_1", "g", 110, "meat"),
                   Price("Chicken Breast", "store_2", "g", 130, "meat"),
                   Price("Chicken Breast", "store_3", "g", 150, "meat"),
                   Price("Broccoli", "store_1", "g", 12, "produce"),
                   Price("Broccoli", "store_2", "g", 9, "produce"),
                   Price("Broccoli", "store_3", "g", 15, "produce"),
                   Price("Rice", "store_1", "g", 18, "pantry"),
                   Price("Rice", "store_2", "g", 22, "pantry"),
                   Price("Rice", "store_3", "g", 20, "pantry") >>]

\* "unit_price": 0.10  # Default price, in mills
DefaultUnitPrice == 100

DefaultStore == [id |-> "default", name |-> "Default Store", location |-> "N/A"]

\* str.lower() on the ingredient names of the tables
Lower(str) ==
    CASE str = "Chicken Breast" -> "chicken breast"
      [] str = "Broccoli"       -> "broccoli"
      [] str = "Rice"           -> "rice"
      [] str = "Bell Pepper"    -> "bell pepper"
      [] str = "Soy Sauce"      -> "soy sauce"
      [] str = "Lettuce"        -> "lettuce"
      [] str = "Tomato"         -> "tomato"
      [] str = "Peanuts"        -> "peanuts"
      [] str = "Cheese"         -> "cheese"
      [] OTHER                  -> str

\* item_name.split(' (')[0]; no ingredient name of the tables contains " ("
SplitName(item_key) == item_key[1]

\* _find_lowest_price_for_ingredient_in_store: the first matching entry, or None
_find_lowest_price_for_ingredient_in_store(db, ingredient, store_id) ==
    LET hits == {i \in 1..Len(db.prices) :
                    /\ Lower(db.prices[i].ingredient) = Lower(ingredient)
                    /\ db.prices[i].store_id = store_id}
    IN IF hits = {} THEN NoneDict
       ELSE db.prices[CHOOSE i \in hits : \A j \in hits : i <= j]

\* a missing item skipped instead of ruling the store out
StoreTotal_SkipsMissing(db, groceries, store_id) ==
    LET t[i \in 0..Len(groceries)] ==
            IF i = 0 THEN [can_supply_all |-> TRUE, total_cost |-> 0]
            ELSE LET prev == t[i - 1]
                     price_info == _find_lowest_price_for_ingredient_in_store(
                                       db, SplitName(groceries[i].key), store_id)
                 IN IF price_info # NoneDict
                    THEN [prev EXCEPT !.total_cost =
                             @ + price_info.price_per_unit * groceries[i].value]
                    ELSE prev
    IN t[Len(groceries)]

\* the loop over one store in _find_best_single_store:
\* [can_supply_all, total_cost]; the loop breaks at the first missing item
StoreTotal(db, groceries, store_id) ==
    LET t[i \in 0..Len(groceries)] ==
            IF i = 0 THEN [can_supply_all |-> TRUE, total_cost |-> 0]
            ELSE LET prev == t[i - 1]
                     price_info == _find_lowest_price_for_ingredient_in_store(
                                       db, SplitName(groceries[i].key), store_id)
                 IN IF ~prev.can_supply_all THEN prev
                    ELSE IF price_info # NoneDict
                    THEN [prev EXCEPT !.total_cost =
                             @ + price_info.price_per_unit * groceries[i].value]
                    ELSE [prev EXCEPT !.can_supply_all = FALSE]
    IN t[Len(groceries)]

\* _find_best_single_store; lowest_total_cost = float('inf') is [inf |-> TRUE]
_find_best_single_store(db, groceries) ==
    IF db.stores = << >> THEN DefaultStore
    ELSE
    LET b[i \in 0..Len(db.stores)] ==
            IF i = 0 THEN [best_store |-> NoneDict, inf |-> TRUE, lowest_total_cost |-> 0]
            ELSE LET prev == b[i - 1]
                     st == StoreTotal(db, groceries, db.stores[i].id)
                 IN IF /\ st.can_supply_all
                       /\ (prev.inf \/ st.total_cost < prev.lowest_total_cost)
                    THEN [best_store |-> db.stores[i], inf |-> FALSE,
                          lowest_total_cost |-> st.total_cost]
                    ELSE prev
        best_store == b[Len(db.stores)].best_store
    IN IF best_store = NoneDict THEN db.stores[1] ELSE best_store

\* an item the store has no entry for left out of the list
_calculate_store_items_DropsUnpriced(db, groceries, store_id) ==
    LET c[i \in 0..Len(groceries)] ==
            IF i = 0 THEN [items |-> << >>, total_cost |-> 0]
            ELSE LET prev == c[i - 1]
                     ingredient_name == SplitName(groceries[i].key)
                     quantity == groceries[i].value
                     price_info == _find_lowest_price_for_ingredient_in_store(
                                       db, ingredient_name, store_id)
                 IN IF price_info # NoneDict
                    THEN [items      |-> Append(prev.items,
                                            [name |-> ingredient_name,
                                             quantity |-> quantity,
                                             unit |-> price_info.unit,
                                             unit_price |-> price_info.price_per_unit,
                                             total_price |-> price_info.price_per_unit * quantity,
                                             section |-> price_info.section]),
                          total_cost |-> prev.total_cost
                                             + price_info.price_per_unit * quantity]
                    ELSE prev
    IN c[Len(groceries)]

Item(n, q, u, p, sec) ==
    [name |-> n, quantity |-> q, unit |-> u, unit_price |-> p,
     total_price |-> p * q, section |-> sec]

\* _calculate_store_items: [items, total_cost]
_calculate_store_items(db, groceries, store_id) ==
    LET c[i \in 0..Len(groceries)] ==
            IF i = 0 THEN [items |-> << >>, total_cost |-> 0]
            ELSE LET prev == c[i - 1]
                     ingredient_name == SplitName(groceries[i].key)
                     quantity == groceries[i].value
                     price_info == _find_lowest_price_for_ingredient_in_store(
                                       db, ingredient_name, store_id)
                     item == IF price_info # NoneDict
                             THEN Item(ingredient_name, quantity, price_info.unit,
                                       price_info.price_per_unit, price_info.section)
                             ELSE Item(ingredient_name, quantity, "g",
                                       DefaultUnitPrice, "unknown")
                 IN [items      |-> Append(prev.items, item),
                     total_cost |-> prev.total_cost + item.total_price]
    IN c[Len(groceries)]

\* _group_by_section: section -> items, sections in order of first appearance
_group_by_section(items) ==
    LET g[i \in 0..Len(items)] ==
            IF i = 0 THEN << >>
            ELSE LET prev == g[i - 1]
                 IN IF items[i].section \in DictKeys(prev)
                    THEN [prev EXCEPT ![DictIndex(prev, items[i].section)].value =
                             Append(@, items[i])]
                    ELSE Append(prev, [key |-> items[i].section, value |-> <<items[i]>>])
    IN g[Len(items)]

\* the last entry with the lowest price taken (<= for <)
_find_lowest_price_for_ingredient_LastCheapest(db, ingredient) ==
    LET l[i \in 0..Len(db.prices)] ==
            IF i = 0 THEN NoneDict
            ELSE LET prev == l[i - 1]
                 IN IF /\ Lower(db.prices[i].ingredient) = Lower(ingredient)
                       /\ (prev = NoneDict
                           \/ db.prices[i].price_per_unit <= prev.price_per_unit)
                    THEN db.prices[i]
                    ELSE prev
    IN l[Len(db.prices)]

\* _find_lowest_price_for_ingredient: the first entry with the lowest price, or None
_find_lowest_price_for_ingredient(db, ingredient) ==
    LET l[i \in 0..Len(db.prices)] ==
            IF i = 0 THEN NoneDict
            ELSE LET prev == l[i - 1]
                 IN IF /\ Lower(db.prices[i].ingredient) = Lower(ingredient)
                       /\ (prev = NoneDict
                           \/ db.prices[i].price_per_unit < prev.price_per_unit)
                    THEN db.prices[i]
                    ELSE prev
    IN l[Len(db.prices)]

\* the default cost of an item with no price anywhere left out of total_cost
_optimize_multi_store_DefaultNotCharged(db, groceries) ==
    LET AddItem(by_store, store_id, item) ==
            IF store_id \in DictKeys(by_store)
            THEN [by_store EXCEPT ![DictIndex(by_store, store_id)].value = Append(@, item)]
            ELSE Append(by_store, [key |-> store_id, value |-> <<item>>])
        m[i \in 0..Len(groceries)] ==
            IF i = 0 THEN [items_by_store |-> << >>, total_cost |-> 0]
            ELSE LET ingredient_name == SplitName(groceries[i].key)
                     quantity == groceries[i].value
                     before == m[i - 1]
                     prev == before.items_by_store
                     best_price_info == _find_lowest_price_for_ingredient(db, ingredient_name)
                 IN IF best_price_info # NoneDict
                    THEN [items_by_store |->
                              AddItem(prev, best_price_info.store_id,
                                      [name |-> ingredient_name, quantity |-> quantity,
                                       unit |-> best_price_info.unit,
                                       unit_price |-> best_price_info.price_per_unit,
                                       total_price |-> best_price_info.price_per_unit * quantity,
                                       section |-> best_price_info.section]),
                          total_cost |-> before.total_cost
                                             + best_price_info.price_per_unit * quantity]
                    ELSE [items_by_store |->
                              AddItem(prev, IF prev = << >> THEN "default" ELSE prev[1].key,
                                      [name |-> ingredient_name, quantity |-> quantity,
                                       unit |-> "g", unit_price |-> 100,
                                       total_price |-> 100 * quantity,
                                       section |-> "unknown"]),
                          total_cost |-> before.total_cost]
    IN m[Len(groceries)]

\* an item with no price anywhere always put into the "default" bucket
_optimize_multi_store_AlwaysDefault(db, groceries) ==
    LET AddItem(by_store, store_id, item) ==
            IF store_id \in DictKeys(by_store)
            THEN [by_store EXCEPT ![DictIndex(by_store, store_id)].value = Append(@, item)]
            ELSE Append(by_store, [key |-> store_id, value |-> <<item>>])
        m[i \in 0..Len(groceries)] ==
            IF i = 0 THEN [items_by_store |-> << >>, total_cost |-> 0]
            ELSE LET ingredient_name == SplitName(groceries[i].key)
                     quantity == groceries[i].value
                     before == m[i - 1]
                     best_price_info == _find_lowest_price_for_ingredient(db, ingredient_name)
                     store_id == IF best_price_info # NoneDict
                                 THEN best_price_info.store_id ELSE "default"
                     item == IF best_price_info # NoneDict
                             THEN [name |-> ingredient_name, quantity |-> quantity,
                                   unit |-> best_price_info.unit,
                                   unit_price |-> best_price_info.price_per_unit,
                                   total_price |-> best_price_info.price_per_unit * quantity,
                                   section |-> best_price_info.section]
                             ELSE [name |-> ingredient_name, quantity |-> quantity,
                                   unit |-> "g", unit_price |-> 100,
                                   total_price |-> 100 * quantity,
                                   section |-> "unknown"]
                 IN [items_by_store |-> AddItem(before.items_by_store, store_id, item),
                     total_cost     |-> before.total_cost + item.total_price]
    IN m[Len(groceries)]

\* _optimize_multi_store: [items_by_store, total_cost]
_optimize_multi_store(db, groceries) ==
    LET AddItem(by_store, store_id, item) ==
            IF store_id \in DictKeys(by_store)
            THEN [by_store EXCEPT ![DictIndex(by_store, store_id)].value = Append(@, item)]
            ELSE Append(by_store, [key |-> store_id, value |-> <<item>>])
        m[i \in 0..Len(groceries)] ==
            IF i = 0 THEN [items_by_store |-> << >>, total_cost |-> 0]
            ELSE LET ingredient_name == SplitName(groceries[i].key)
                     quantity == groceries[i].value
                     before == m[i - 1]
                     prev == before.items_by_store
                     best_price_info == _find_lowest_price_for_ingredient(db, ingredient_name)
                 IN IF best_price_info # NoneDict
                    THEN LET item == Item(ingredient_name, quantity, best_price_info.unit,
                                          best_price_info.price_per_unit,
                                          best_price_info.section)
                         IN [items_by_store |-> AddItem(prev, best_price_info.store_id, item),
                             total_cost     |-> before.total_cost + item.total_price]
                    ELSE LET store_id == IF prev = << >> THEN "default" ELSE prev[1].key
                             item == Item(ingredient_name, quantity, "g",
                                          DefaultUnitPrice, "unknown")
                         IN [items_by_store |-> AddItem(prev, store_id, item),
                             total_cost     |-> before.total_cost + item.total_price]
    IN m[Len(groceries)]

\* _find_all_prices_for_ingredient
_find_all_prices_for_ingredient(db, ingredient) ==
    LET K(e) == Lower(e.ingredient) = Lower(ingredient)
    IN Comprehension(db.prices, K)

\* the entries sorted from the highest price down
SortByPrice_Descending(entries) ==
    LET Insert(sorted, e) ==
            LET k == Cardinality({j \in 1..Len(sorted) :
                                     sorted[j].price_per_unit >= e.price_per_unit})
            IN SubSeq(sorted, 1, k) \o <<e>> \o SubSeq(sorted, k + 1, Len(sorted))
        r[i \in 0..Len(entries)] ==
            IF i = 0 THEN << >> ELSE Insert(r[i - 1], entries[i])
    IN r[Len(entries)]

\* all_prices.sort(key=lambda x: x["price_per_unit"]): stable, ascending
SortByPrice(entries) ==
    LET Insert(sorted, e) ==
            LET k == Cardinality({j \in 1..Len(sorted) :
                                     sorted[j].price_per_unit <= e.price_per_unit})
            IN SubSeq(sorted, 1, k) \o <<e>> \o SubSeq(sorted, k + 1, Len(sorted))
        r[i \in 0..Len(entries)] ==
            IF i = 0 THEN << >> ELSE Insert(r[i - 1], entries[i])
    IN r[Len(entries)]

\* _get_store_name
_get_store_name(db, store_id) ==
    LET hits == {i \in 1..Len(db.stores) : db.stores[i].id = store_id}
    IN IF hits = {} THEN "Unknown Store"
       ELSE db.stores[CHOOSE i \in hits : \A j \in hits : i <= j].name

\* the test turned round: the cheapest price below 0.9 x the second
_find_substitutions_CheapestBelowSecond(db, groceries) ==
    LET s[i \in 0..Len(groceries)] ==
            IF i = 0 THEN << >>
            ELSE LET prev == s[i - 1]
                     ingredient_name == SplitName(groceries[i].key)
                     all_prices == SortByPrice(
                                       _find_all_prices_for_ingredient(db, ingredient_name))
                 IN IF /\ Len(all_prices) > 1
                       /\ 10 * all_prices[1].price_per_unit
                              < 9 * all_prices[2].price_per_unit
                    THEN Append(prev,
                           [original_item     |-> ingredient_name,
                            alternative_store |-> _get_store_name(db, all_prices[2].store_id),
                            original_price    |-> all_prices[1].price_per_unit,
                            alternative_price |-> all_prices[2].price_per_unit,
                            savings_per_unit  |-> all_prices[1].price_per_unit
                                                    - all_prices[2].price_per_unit,
                            estimated_savings |-> (all_prices[1].price_per_unit
                                                    - all_prices[2].price_per_unit)
                                                  * groceries[i].value])
                    ELSE prev
    IN s[Len(groceries)]

\* _find_substitutions; next_cheapest < current_price * 0.9 in tenths
_find_substitutions(db, groceries) ==
    LET s[i \in 0..Len(groceries)] ==
            IF i = 0 THEN << >>
            ELSE LET prev == s[i - 1]
                     ingredient_name == SplitName(groceries[i].key)
                     all_prices == SortByPrice(
                                       _find_all_prices_for_ingredient(db, ingredient_name))
                 IN IF /\ Len(all_prices) > 1
                       /\ 10 * all_prices[2].price_per_unit
                              < 9 * all_prices[1].price_per_unit
                    THEN Append(prev,
                           [original_item     |-> ingredient_name,
                            alternative_store |-> _get_store_name(db, all_prices[2].store_id),
                            original_price    |-> all_prices[1].price_per_unit,
                            alternative_price |-> all_prices[2].price_per_unit,
                            savings_per_unit  |-> all_prices[1].price_per_unit
                                                    - all_prices[2].price_per_unit,
                            estimated_savings |-> (all_prices[1].price_per_unit
                                                    - all_prices[2].price_per_unit)
                                                  * groceries[i].value])
                    ELSE prev
    IN s[Len(groceries)]

\* optimize_grocery_list
optimize_grocery_list(db, groceries, single_store_mode) ==
    LET best_store == _find_best_single_store(db, groceries)
        single == _calculate_store_items(db, groceries, best_store.id)
        multi  == _optimize_multi_store(db, groceries)
    IN IF single_store_mode
       THEN [single_store_mode |-> TRUE,
             selected_store    |-> best_store,
             stores_used       |-> <<best_store>>,
             total_cost        |-> single.total_cost,
             items_by_store    |-> <<[key |-> best_store.id, value |-> single.items]>>,
             items_by_section  |-> _group_by_section(single.items),
             substitutions     |-> _find_substitutions(db, groceries),
             cost_savings      |-> 0]
       ELSE [single_store_mode |-> FALSE,
             selected_store    |-> NoneDict,
             stores_used       |-> [i \in 1..Len(multi.items_by_store) |->
                                       multi.items_by_store[i].key],
             total_cost        |-> multi.total_cost,
             items_by_store    |-> multi.items_by_store,
             items_by_section  |-> << >>,
             substitutions     |-> _find_substitutions(db, groceries),
             cost_savings      |-> 0]

-----------------------------------------------------------------------------
(* The requests: UserPreferences drawn from small sets *)

DietaryChoices     == {{}, {"vegan"}}
AllergyChoices     == {{}, {"nuts"}}
CuisineChoices     == {{}, {"American"}}
CookingTimeChoices == {20, 30, 45}
BudgetChoices      == {0, 80000, 95000}
RepeatChoices      == {2, 7, 12}
ProteinChoices     == {<< >>, <<0>>, <<60>>}
CarbsChoices       == {<< >>, <<100>>}
FatChoices         == {<< >>, <<30>>}
CalorieChoices     == {<< >>, <<1000>>}

AllPreferences ==
    [dietary_restrictions : DietaryChoices,
     allergies            : AllergyChoices,
     preferred_cuisines   : CuisineChoices,
     max_cooking_time_min : CookingTimeChoices,
     weekly_budget        : BudgetChoices,
     max_repeats_per_week : RepeatChoices,
     target_protein_g     : ProteinChoices,
     target_carbs_g       : CarbsChoices,
     target_fat_g         : FatChoices,
     target_calories      : CalorieChoices]

\* requests that filter by cooking time only (30 minutes: the first three
\* recipes are eligible), with any targets
FiltersByTimeOnly(p) ==
    /\ p.dietary_restrictions = {} /\ p.allergies = {} /\ p.preferred_cuisines = {}
    /\ p.max_cooking_time_min = 30

\* requests with no nutrition target, with any eligibility filter
NoTargets(p) ==
    /\ p.target_protein_g = << >> /\ p.target_carbs_g = << >>
    /\ p.target_fat_g = << >> /\ p.target_calories = << >>

UserPreferences == {p \in AllPreferences : FiltersByTimeOnly(p) \/ NoTargets(p)}

\* the values date.today() can return (day 0 is a Monday)
Today == 0..6

NoError == ""

\* the requests served at the same time, each in its own worker thread
MaxRequests == 2

Requests == 1..MaxRequests

\* recipes.json and prices.json
Files == {"recipes", "prices"}

\* a loader that has returned
Done == [file |-> "none", step |-> "done"]

\* both files written in full and every request's services constructed
LoadersDone ==
    /\ file_state = [f \in Files |-> "complete"]
    /\ loader_pc = [r \in Requests |-> Done]
    /\ load_result = [r \in Requests |-> [f \in Files |-> "loaded"]]

-----------------------------------------------------------------------------
(* MealPlannerService.generate_meal_plan, one action per step *)

Init ==
    /\ pc = "start"
    /\ user_preferences \in UserPreferences
    /\ filtered_recipes = << >>
    /\ status = "NONE"
    /\ optimized_plan = << >>
    /\ recipe_assignments = << >>
    /\ assigned_recipes = << >>
    /\ ingredient_usage_tracker = << >>
    /\ meal_pos = 0
    /\ today = << >>
    /\ daily_meals = << >>
    /\ grocery_list = << >>
    /\ optimized_grocery = NoneDict
    /\ meal_plan = NoneDict
    /\ error = NoError
    /\ calls = << >>
    /\ price_database = _price_database
    /\ LoadersDone

\* filtered_recipes = self.recipe_service.filter_recipes(...)
FilterRecipes ==
    /\ pc = "start"
    /\ filtered_recipes' = filter_recipes(user_preferences.dietary_restrictions,
                                          user_preferences.allergies,
                                          user_preferences.max_cooking_time_min,
                                          user_preferences.preferred_cuisines)
    /\ calls' = Append(calls, "filter_recipes")
    /\ pc' = "filtered"
    /\ UNCHANGED <<loadvars, price_database, user_preferences, status, optimized_plan, recipe_assignments,
                   assigned_recipes, ingredient_usage_tracker, meal_pos, today,
                   daily_meals, grocery_list, optimized_grocery, meal_plan, error>>

\* the emptiness test left out
NoRecipes_Never(filtered) == FALSE

\* if not filtered_recipes:
NoRecipes(filtered) == filtered = << >>

\*     raise ValueError("No recipes match your preferences and constraints")
RaiseNoRecipes ==
    /\ pc = "filtered"
    /\ NoRecipes(filtered_recipes)
    /\ error' = "No recipes match your preferences and constraints"
    /\ pc' = "error"
    /\ UNCHANGED <<loadvars, price_database, user_preferences, filtered_recipes, status, optimized_plan,
                   recipe_assignments, assigned_recipes, ingredient_usage_tracker,
                   meal_pos, today, daily_meals, grocery_list, optimized_grocery,
                   meal_plan, calls>>

\* protein_deviation = abs(actual_protein - weekly_protein_target), and the
\* same for carbs, fat and calories, each under `if weekly_..._target > 0`:
\* abs() is applied to an expression over the solver's variables.  The
\* expression type belongs to the solver library; where it has no __abs__
\* the call raises TypeError, where it has one the value goes into
\* objective_expr, which is never used.
AbsOutcomes(prefs) ==
    IF \E target \in {prefs.target_protein_g, prefs.target_carbs_g,
                       prefs.target_fat_g, prefs.target_calories} :
           WeeklyTarget(target) > 0
    THEN {"value", "TypeError"}
    ELSE {"value"}

\* optimized_plan = self.optimization_service.optimize_meal_plan(...), when
\* abs() raises: the exception leaves generate_meal_plan
OptimizeMealPlanRaises ==
    /\ pc = "filtered"
    /\ ~NoRecipes(filtered_recipes)
    /\ "TypeError" \in AbsOutcomes(user_preferences)
    /\ calls' = Append(calls, "optimize_meal_plan")
    /\ error' = "TypeError"
    /\ pc' = "error"
    /\ UNCHANGED <<loadvars, price_database, user_preferences, filtered_recipes, status, optimized_plan,
                   recipe_assignments, assigned_recipes, ingredient_usage_tracker,
                   meal_pos, today, daily_meals, grocery_list, optimized_grocery,
                   meal_plan>>

\* optimized_plan = self.optimization_service.optimize_meal_plan(...)
OptimizeMealPlan ==
    /\ pc = "filtered"
    /\ ~NoRecipes(filtered_recipes)
    /\ "value" \in AbsOutcomes(user_preferences)
    /\ \E outcome \in SolveOutcomes(filtered_recipes, user_preferences) :
          /\ status' = outcome.status
          /\ optimized_plan' = optimize_meal_plan(outcome, filtered_recipes,
                                                  user_preferences)
    /\ calls' = Append(calls, "optimize_meal_plan")
    /\ pc' = "optimized"
    /\ UNCHANGED <<loadvars, price_database, user_preferences, filtered_recipes, recipe_assignments,
                   assigned_recipes, ingredient_usage_tracker, meal_pos, today,
                   daily_meals, grocery_list, optimized_grocery, meal_plan, error>>

\* the emptiness test left out
NoPlan_Never(plan) == FALSE

\* if not optimized_plan:
NoPlan(plan) == plan = << >>

\*     raise ValueError("Could not generate a meal plan within your constraints")
RaiseNoPlan ==
    /\ pc = "optimized"
    /\ NoPlan(optimized_plan)
    /\ error' = "Could not generate a meal plan within your constraints"
    /\ pc' = "error"
    /\ UNCHANGED <<loadvars, price_database, user_preferences, filtered_recipes, status, optimized_plan,
                   recipe_assignments, assigned_recipes, ingredient_usage_tracker,
                   meal_pos, today, daily_meals, grocery_list, optimized_grocery,
                   meal_plan, calls>>

\* the tracker of the call before carried into this one
NewTracker_KeptFromLastCall(tracker) == tracker

\* ingredient_usage_tracker = {}: a local of the call, whatever an earlier
\* call left in its own
NewTracker(tracker) == << >>

\* _create_daily_meals, up to the slot loop: the occurrences, 21 empty slots,
\* an empty tracker
EnterCreateDailyMeals ==
    /\ recipe_assignments' = ExpandAssignments(optimized_plan)
    /\ assigned_recipes' = [k \in 1..NumSlots |-> None]
    /\ ingredient_usage_tracker' = NewTracker(ingredient_usage_tracker)
    /\ meal_pos' = 0
    /\ calls' = Append(calls, "_create_daily_meals")
    /\ pc' = "scheduling"
    /\ UNCHANGED <<loadvars, price_database, user_preferences, filtered_recipes, status, optimized_plan,
                   today, daily_meals, grocery_list, optimized_grocery, meal_plan,
                   error>>

\* daily_meals = self._create_daily_meals(optimized_plan, user_preferences)
CreateDailyMeals ==
    /\ pc = "optimized"
    /\ ~NoPlan(optimized_plan)
    /\ EnterCreateDailyMeals

\* one pass of `for meal_pos in range(day_start_idx, day_end_idx)`
AssignSlot ==
    /\ pc = "scheduling"
    /\ meal_pos < NumSlots
    /\ IF recipe_assignments # << >>
       THEN LET selected == SelectRecipe(recipe_assignments, ingredient_usage_tracker)
            IN /\ ingredient_usage_tracker' =
                      UpdateTracker(ingredient_usage_tracker, selected.recipe)
               /\ assigned_recipes' =
                      [assigned_recipes EXCEPT ![meal_pos + 1] = selected.recipe]
               /\ recipe_assignments' = Pop(recipe_assignments, selected.i)
       ELSE UNCHANGED <<ingredient_usage_tracker, assigned_recipes, recipe_assignments>>
    /\ meal_pos' = meal_pos + 1
    /\ UNCHANGED <<loadvars, price_database, pc, user_preferences, filtered_recipes, status, optimized_plan,
                   today, daily_meals, grocery_list, optimized_grocery, meal_plan,
                   error, calls>>

\* the conversion loop and `return daily_meals`
ReturnDailyMeals ==
    /\ pc = "scheduling"
    /\ meal_pos = NumSlots
    /\ \E d \in Today :
          /\ today' = <<d>>
          /\ daily_meals' = ConvertDailyMeals(assigned_recipes, d)
    /\ pc' = "scheduled"
    /\ UNCHANGED <<loadvars, price_database, user_preferences, filtered_recipes, status, optimized_plan,
                   recipe_assignments, assigned_recipes, ingredient_usage_tracker,
                   meal_pos, grocery_list, optimized_grocery, meal_plan, error, calls>>

\* grocery_list = self.optimization_service.calculate_grocery_list(optimized_plan)
CalculateGroceryList ==
    /\ pc = "scheduled"
    /\ grocery_list' = calculate_grocery_list(optimized_plan)
    /\ calls' = Append(calls, "calculate_grocery_list")
    /\ pc' = "listed"
    /\ UNCHANGED <<loadvars, price_database, user_preferences, filtered_recipes, status, optimized_plan,
                   recipe_assignments, assigned_recipes, ingredient_usage_tracker,
                   meal_pos, today, daily_meals, optimized_grocery, meal_plan, error>>

\* optimized_grocery = self.grocery_optimizer.optimize_grocery_list(
\*     grocery_list, user_preferences, single_store_mode=True)
OptimizeGroceryList ==
    /\ pc = "listed"
    /\ optimized_grocery' = optimize_grocery_list(price_database, grocery_list, TRUE)
    /\ calls' = Append(calls, "optimize_grocery_list")
    /\ pc' = "priced"
    /\ UNCHANGED <<loadvars, price_database, user_preferences, filtered_recipes, status, optimized_plan,
                   recipe_assignments, assigned_recipes, ingredient_usage_tracker,
                   meal_pos, today, daily_meals, grocery_list, meal_plan, error>>

\* today = date.today(), read again after the scheduler's read: the same day,
\* or the next one when midnight has passed in between
ClockAfter(d) == {d, d + 1}

\* the rule for a Monday left out
WeekStartDate_NoMondayRule(d) == d + ((7 - Weekday(d)) % 7)

\* days_until_monday and week_start_date
WeekStartDate(d) ==
    LET days_until_monday == (7 - Weekday(d)) % 7
    IN d + (IF days_until_monday = 0 THEN 7 ELSE days_until_monday)

\* meal_plan = MealPlan(...): the model validates its fields; grocery_list is
\* declared List[Dict[str, float]] and is handed the dict optimized_grocery,
\* so the constructor raises and no MealPlan is returned
BuildMealPlan ==
    /\ pc = "priced"
    /\ \E d \in ClockAfter(today[1]) :
          /\ today' = <<d>>
          /\ meal_plan' = [week_start_date     |-> WeekStartDate(d),
                           daily_meals         |-> daily_meals,
                           total_cost          |-> optimized_grocery.total_cost,
                           nutritional_summary |-> _calculate_nutritional_summary(optimized_plan),
                           grocery_list        |-> optimized_grocery]
    /\ error' = "ValidationError"
    /\ pc' = "error"
    /\ UNCHANGED <<loadvars, price_database, user_preferences, filtered_recipes, status, optimized_plan,
                   recipe_assignments, assigned_recipes, ingredient_usage_tracker,
                   meal_pos, daily_meals, grocery_list, optimized_grocery, calls>>

Next ==
    \/ FilterRecipes
    \/ RaiseNoRecipes
    \/ OptimizeMealPlan
    \/ OptimizeMealPlanRaises
    \/ RaiseNoPlan
    \/ CreateDailyMeals
    \/ AssignSlot
    \/ ReturnDailyMeals
    \/ CalculateGroceryList
    \/ OptimizeGroceryList
    \/ BuildMealPlan

Spec == Init /\ [][Next]_vars

-----------------------------------------------------------------------------
(* _create_daily_meals called on any Selection: three entries in table      *)
(* order, in reverse table order, or in an order where the last entry       *)
(* shares an ingredient with the first; 0 to MaxDirectServings servings     *)
(* each (an entry of 0 servings is left out)                                *)

MaxDirectServings == 8

SelectionOver(order, servings) ==
    LET e[i \in 0..Len(order)] ==
            IF i = 0 THEN << >>
            ELSE IF servings[i] > 0 THEN Append(e[i - 1], <<order[i], servings[i]>>)
                 ELSE e[i - 1]
    IN e[Len(order)]

DirectSelections ==
    {SelectionOver(order, servings) :
        order \in {<<1, 2, 3>>, <<3, 2, 1>>, <<3, 2, 4>>},
        servings \in [1..3 -> 0..MaxDirectServings]}

InitSchedule ==
    /\ pc = "call"
    /\ user_preferences \in {p \in UserPreferences :
                                /\ FiltersByTimeOnly(p) /\ NoTargets(p)
                                /\ p.weekly_budget = 0 /\ p.max_repeats_per_week = 2}
    /\ optimized_plan \in DirectSelections
    /\ filtered_recipes = << >>
    /\ status = "NONE"
    /\ recipe_assignments = << >>
    /\ assigned_recipes = << >>
    /\ ingredient_usage_tracker = << >>
    /\ meal_pos = 0
    /\ today = << >>
    /\ daily_meals = << >>
    /\ grocery_list = << >>
    /\ optimized_grocery = NoneDict
    /\ meal_plan = NoneDict
    /\ error = NoError
    /\ calls = << >>
    /\ price_database = _price_database
    /\ LoadersDone

CallCreateDailyMeals ==
    /\ pc = "call"
    /\ EnterCreateDailyMeals

NextSchedule ==
    \/ CallCreateDailyMeals
    \/ AssignSlot
    \/ ReturnDailyMeals

SpecSchedule == InitSchedule /\ [][NextSchedule]_vars

-----------------------------------------------------------------------------
(* _create_daily_meals called twice by the same service object on the same  *)
(* Selection; daily_meals holds what the first call returned while the      *)
(* second runs                                                              *)

RepeatServingChoices == {0, 1, 4, 9}

RepeatSelections ==
    {SelectionOver(order, servings) :
        order \in {<<1, 2, 3>>, <<3, 2, 1>>, <<3, 2, 4>>},
        servings \in [1..3 -> RepeatServingChoices]}

InitRepeat ==
    /\ pc = "call"
    /\ user_preferences \in {p \in UserPreferences :
                                /\ FiltersByTimeOnly(p) /\ NoTargets(p)
                                /\ p.weekly_budget = 0 /\ p.max_repeats_per_week = 2}
    /\ optimized_plan \in RepeatSelections
    /\ filtered_recipes = << >>
    /\ status = "NONE"
    /\ recipe_assignments = << >>
    /\ assigned_recipes = << >>
    /\ ingredient_usage_tracker = << >>
    /\ meal_pos = 0
    /\ today = << >>
    /\ daily_meals = << >>
    /\ grocery_list = << >>
    /\ optimized_grocery = NoneDict
    /\ meal_plan = NoneDict
    /\ error = NoError
    /\ calls = << >>
    /\ price_database = _price_database
    /\ LoadersDone

CallCreateDailyMealsAgain ==
    /\ pc = "scheduled"
    /\ Len(calls) = 1
    /\ EnterCreateDailyMeals

NextRepeat ==
    \/ CallCreateDailyMeals
    \/ AssignSlot
    \/ ReturnDailyMeals
    \/ CallCreateDailyMealsAgain

SpecRepeat == InitRepeat /\ [][NextRepeat]_vars

-----------------------------------------------------------------------------
(* optimize_grocery_list called on any basket with any catalog, in either   *)
(* mode.  A catalog lists two stores and, for each of three ingredients and *)
(* each store, no entry or an entry at one of a few prices; four more       *)
(* catalogs are the default file, one whose entries are not in store order, *)
(* one with prices below zero and an empty one.  A basket is a dict of up to MaxBasketLen keys in any  *)
(* insertion order; "Saffron" has no entry in any catalog, and the basket   *)
(* writes "chicken breast" in lower case.                                   *)

MaxBasketLen == 3

BasketItems ==
    { [key |-> <<"chicken breast", "g">>, value |-> 300],
      [key |-> <<"Broccoli", "g">>,       value |-> 200],
      [key |-> <<"Rice", "g">>,           value |-> 100],
      [key |-> <<"Saffron", "g">>,        value |-> 2] }

Baskets ==
    {b \in UNION {[1..n -> BasketItems] : n \in 0..MaxBasketLen} :
        \A i, j \in 1..Len(b) : i # j => b[i] # b[j]}

ChickenPrices  == {<< >>, <<110>>, <<130>>}
BroccoliPrices == {<< >>, <<9>>}
RicePrices     == {<< >>, <<18>>, <<22>>}

TwoStores == SubSeq(_price_database.stores, 1, 2)

\* the entries of one ingredient, store_1 before store_2
Entries(ing, sec, p1, p2) ==
    (IF p1 = << >> THEN << >> ELSE <<Price(ing, "store_1", "g", p1[1], sec)>>)
    \o (IF p2 = << >> THEN << >> ELSE <<Price(ing, "store_2", "g", p2[1], sec)>>)

GeneratedCatalogs ==
    {[stores |-> TwoStores,
      prices |-> Entries("Chicken Breast", "meat", c1, c2)
                 \o Entries("Broccoli", "produce", b1, b2)
                 \o Entries("Rice", "pantry", r1, r2)] :
        c1 \in ChickenPrices, c2 \in ChickenPrices,
        b1 \in BroccoliPrices, b2 \in BroccoliPrices,
        r1 \in RicePrices, r2 \in RicePrices}

\* equal prices, the entry of store_2 listed before the entry of store_1
TiedCatalog ==
    [stores |-> TwoStores,
     prices |-> << Price("Chicken Breast", "store_2", "g", 110, "meat"),
                   Price("Chicken Breast", "store_1", "g", 110, "meat"),
                   Price("Rice", "store_2", "g", 18, "pantry"),
                   Price("Rice", "store_1", "g", 18, "pantry") >>]

\* a prices file with entries below zero (refunds entered as prices)
RebateCatalog ==
    [stores |-> TwoStores,
     prices |-> << Price("Broccoli", "store_1", "g", -10, "produce"),
                   Price("Broccoli", "store_2", "g", -20, "produce"),
                   Price("Rice", "store_1", "g", -20, "pantry"),
                   Price("Rice", "store_2", "g", -19, "pantry") >>]

\* a prices file with no stores and no prices
EmptyCatalog == [stores |-> << >>, prices |-> << >>]

Catalogs ==
    GeneratedCatalogs \cup {_price_database, TiedCatalog, RebateCatalog, EmptyCatalog}

InitGrocery ==
    /\ pc = "basket"
    /\ user_preferences \in {p \in UserPreferences :
                                /\ FiltersByTimeOnly(p) /\ NoTargets(p)
                                /\ p.weekly_budget = 0 /\ p.max_repeats_per_week = 2}
    /\ grocery_list \in Baskets
    /\ price_database \in Catalogs
    /\ LoadersDone
    /\ optimized_plan = << >>
    /\ filtered_recipes = << >>
    /\ status = "NONE"
    /\ recipe_assignments = << >>
    /\ assigned_recipes = << >>
    /\ ingredient_usage_tracker = << >>
    /\ meal_pos = 0
    /\ today = << >>
    /\ daily_meals = << >>
    /\ optimized_grocery = NoneDict
    /\ meal_plan = NoneDict
    /\ error = NoError
    /\ calls = << >>

\* optimize_grocery_list(grocery_list, user_preferences, single_store_mode)
CallOptimizeGroceryList(single_store_mode) ==
    /\ pc = "basket"
    /\ optimized_grocery' =
           optimize_grocery_list(price_database, grocery_list, single_store_mode)
    /\ calls' = Append(calls, "optimize_grocery_list")
    /\ pc' = "returned"
    /\ UNCHANGED <<loadvars, price_database, user_preferences, filtered_recipes, status,
                   optimized_plan, recipe_assignments, assigned_recipes,
                   ingredient_usage_tracker, meal_pos, today, daily_meals,
                   grocery_list, meal_plan, error>>

OptimizeSingleStore == CallOptimizeGroceryList(TRUE)

OptimizeMultiStore == CallOptimizeGroceryList(FALSE)

NextGrocery ==
    \/ OptimizeSingleStore
    \/ OptimizeMultiStore

SpecGrocery == InitGrocery /\ [][NextGrocery]_vars

-----------------------------------------------------------------------------
(* The loaders of RecipeService and GroceryOptimizerService, run by every    *)
(* request of main.generate_meal_plan.  The handler is a plain def, which    *)
(* the framework runs in a worker thread per request; nothing in the loaders *)
(* takes a lock.  A file on disk is "missing", "truncated" (opened for       *)
(* writing by open(path, 'w'), its content not yet flushed) or "complete".   *)

\* the loader a request runs after the one of file f
AfterLoader(f) ==
    IF f = "recipes" THEN [file |-> "prices", step |-> "exists"] ELSE Done

\* if not os.path.exists(path): self._create_default_...()
ExistsCheck(r) ==
    /\ loader_pc[r].step = "exists"
    /\ loader_pc' = [loader_pc EXCEPT ![r].step =
                         IF file_state[loader_pc[r].file] = "missing"
                         THEN "open" ELSE "read"]
    /\ UNCHANGED <<file_state, load_result, pipelinevars>>

\* os.makedirs(..., exist_ok=True); open(path, 'w') creates or truncates
OpenForWrite(r) ==
    /\ loader_pc[r].step = "open"
    /\ file_state' = [file_state EXCEPT ![loader_pc[r].file] = "truncated"]
    /\ loader_pc' = [loader_pc EXCEPT ![r].step = "dump"]
    /\ UNCHANGED <<load_result, pipelinevars>>

\* json.dump(default, f, indent=2) and the close that ends the with block
DumpAndClose(r) ==
    /\ loader_pc[r].step = "dump"
    /\ file_state' = [file_state EXCEPT ![loader_pc[r].file] = "complete"]
    /\ loader_pc' = [loader_pc EXCEPT ![r].step = "read"]
    /\ UNCHANGED <<load_result, pipelinevars>>

\* how open(path, 'r') and json.load(f) end on a file in state s
ReadOutcome(s) ==
    CASE s = "missing" -> "FileNotFoundError"
      [] s = "truncated" -> "JSONDecodeError"
      [] OTHER -> "loaded"

\* the try block: open, json.load, return; both except clauses return empty
ReadFile(r) ==
    /\ loader_pc[r].step = "read"
    /\ load_result' = [load_result EXCEPT ![r][loader_pc[r].file] =
                           ReadOutcome(file_state[loader_pc[r].file])]
    /\ loader_pc' = [loader_pc EXCEPT ![r] = AfterLoader(loader_pc[r].file)]
    /\ UNCHANGED <<file_state, pipelinevars>>

\* RecipeService._recipes of request r
LoadedRecipes(r) ==
    IF load_result[r]["recipes"] = "loaded" THEN _recipes ELSE << >>

\* GroceryOptimizerService._price_database of request r
LoadedPrices(r) ==
    IF load_result[r]["prices"] = "loaded" THEN _price_database ELSE EmptyCatalog

\* a first run (no data files yet) or a later one, and requests that have
\* just entered the handler
InitLoad ==
    /\ file_state \in [Files -> {"missing", "complete"}]
    /\ loader_pc = [r \in Requests |-> [file |-> "recipes", step |-> "exists"]]
    /\ load_result = [r \in Requests |-> [f \in Files |-> "none"]]
    /\ pc = "start"
    /\ user_preferences = CHOOSE p \in UserPreferences : TRUE
    /\ filtered_recipes = << >>
    /\ status = "NONE"
    /\ optimized_plan = << >>
    /\ recipe_assignments = << >>
    /\ assigned_recipes = << >>
    /\ ingredient_usage_tracker = << >>
    /\ meal_pos = 0
    /\ today = << >>
    /\ daily_meals = << >>
    /\ grocery_list = << >>
    /\ optimized_grocery = NoneDict
    /\ meal_plan = NoneDict
    /\ error = NoError
    /\ calls = << >>
    /\ price_database = _price_database

NextLoad ==
    \/ \E r \in Requests : ExistsCheck(r)
    \/ \E r \in Requests : OpenForWrite(r)
    \/ \E r \in Requests : DumpAndClose(r)
    \/ \E r \in Requests : ReadFile(r)

SpecLoad == InitLoad /\ [][NextLoad]_vars

-----------------------------------------------------------------------------
(* Properties.  The selector's contract is restated here in the terms of    *)
(* the Selection it returns and of the request, not of the solver model.    *)

Min(a, b) == IF a <= b THEN a ELSE b

Called(f) == \E i \in 1..Len(calls) : calls[i] = f

\* optimize_meal_plan has just returned
SelectorReturned == pc = "optimized"

\* a non-empty Selection has been returned (it is kept for the rest of the run)
SelectionReturned == Called("optimize_meal_plan") /\ optimized_plan # << >>

PositionIn(seq, e) == CHOOSE i \in 1..Len(seq) : seq[i] = e

\* the macro totals of a Selection and the daily targets they answer to
MacroTotals(plan) ==
    <<PlanTotal(plan, Protein), PlanTotal(plan, Carbs),
      PlanTotal(plan, Fat), PlanTotal(plan, Calories)>>

MacroTargets(prefs) ==
    <<prefs.target_protein_g, prefs.target_carbs_g,
      prefs.target_fat_g, prefs.target_calories>>

TargetIsPositive(target) == target # << >> /\ target[1] > 0

\* total within [lo/10 * T, hi/10 * T] for T = daily target x 7
WithinBand(total, target, lo, hi) ==
    /\ 10 * total >= lo * (target[1] * 7)
    /\ 10 * total <= hi * (target[1] * 7)

\* a serving vector y over the candidates meets the contract's constraints,
\* with the nutrition band lo/10 .. hi/10 on the macros with a positive target
MeetsContract(y, recipes, prefs, lo, hi) ==
    LET plan == SelectionOver(recipes, y)
    IN /\ \A i \in 1..Len(recipes) : y[i] \in 0..Min(10, prefs.max_repeats_per_week)
       /\ PlanTotal(plan, One) >= 21
       /\ PlanTotal(plan, Cost) <= prefs.weekly_budget
       /\ PlanTotal(plan, Time) <= 21 * prefs.max_cooking_time_min
       /\ \A m \in 1..4 :
             TargetIsPositive(MacroTargets(prefs)[m]) =>
                 WithinBand(MacroTotals(plan)[m], MacroTargets(prefs)[m], lo, hi)

ServingVectors(recipes) == [1..Len(recipes) -> 0..10]

\* C1: every non-empty Selection returned by optimize_meal_plan keeps both
\* aggregate caps: the sum of servings x total_cost is at most weekly_budget
\* and the sum of servings x cooking_time_min is at most 21 x
\* max_cooking_time_min.
C1_AggregateCaps ==
    SelectionReturned =>
        /\ PlanTotal(optimized_plan, Cost) <= user_preferences.weekly_budget
        /\ PlanTotal(optimized_plan, Time)
               <= 21 * user_preferences.max_cooking_time_min

\* a Selection is returned that spends the whole budget
C1_Witness ==
    /\ SelectorReturned /\ SelectionReturned
    /\ PlanTotal(optimized_plan, Cost) = user_preferences.weekly_budget

\* C2: every entry of a returned Selection has 1 <= servings <=
\* min(10, max_repeats_per_week); a recipe solved at 0 servings has no entry;
\* the entries follow the order of the candidate list.
C2_EntriesBounded ==
    Called("optimize_meal_plan") =>
        /\ \A i \in 1..Len(optimized_plan) :
              /\ optimized_plan[i][1] \in {filtered_recipes[k] : k \in 1..Len(filtered_recipes)}
              /\ optimized_plan[i][2] \in
                     1..Min(10, user_preferences.max_repeats_per_week)
        /\ \A i, j \in 1..Len(optimized_plan) :
              i < j => PositionIn(filtered_recipes, optimized_plan[i][1])
                           < PositionIn(filtered_recipes, optimized_plan[j][1])

\* a Selection that leaves a candidate out (0 servings) and holds an entry at
\* the cap of 10 although max_repeats_per_week is larger
C2_Witness ==
    /\ SelectorReturned /\ SelectionReturned
    /\ Len(optimized_plan) < Len(filtered_recipes)
    /\ user_preferences.max_repeats_per_week > 10
    /\ \E i \in 1..Len(optimized_plan) : optimized_plan[i][2] = 10

\* C3: every non-empty Selection returned has at least 21 servings in total,
\* and so none is returned for a pool of fewer than
\* ceil(21 / min(10, max_repeats_per_week)) recipes.
C3_MinimumVolume ==
    SelectionReturned =>
        /\ PlanTotal(optimized_plan, One) >= 21
        /\ Len(filtered_recipes) * Min(10, user_preferences.max_repeats_per_week) >= 21

\* a Selection of exactly 21 servings from a pool that is exactly large enough
C3_Witness ==
    /\ SelectorReturned /\ SelectionReturned
    /\ PlanTotal(optimized_plan, One) = 21
    /\ Len(filtered_recipes) * Min(10, user_preferences.max_repeats_per_week) = 21

\* C4: for each macro with a positive daily target the total of a returned
\* Selection lies within [0.8 T, 1.2 T], T = target x 7; a macro with a zero
\* or unset target constrains nothing: the solver reports infeasibility only
\* when no serving vector meets the other constraints and the bands of the
\* macros with a positive target.
C4_NutritionBand ==
    /\ SelectionReturned =>
          \A m \in 1..4 :
             TargetIsPositive(MacroTargets(user_preferences)[m]) =>
                 WithinBand(MacroTotals(optimized_plan)[m],
                            MacroTargets(user_preferences)[m], 8, 12)
    /\ (SelectorReturned /\ status = "INFEASIBLE") =>
          ~\E y \in ServingVectors(filtered_recipes) :
               MeetsContract(y, filtered_recipes, user_preferences, 8, 12)

\* a Selection returned for a request with a zero protein target, an unset
\* fat target and a positive carbs target
C4_Witness ==
    /\ SelectorReturned /\ SelectionReturned
    /\ user_preferences.target_protein_g = <<0>>
    /\ user_preferences.target_fat_g = << >>
    /\ TargetIsPositive(user_preferences.target_carbs_g)
    /\ PlanTotal(optimized_plan, Protein) > 0

\* C5: a returned Selection is cost-minimal among the serving vectors that
\* meet the nutrition band, budget, variety, cap, volume and time
\* constraints, whatever the solver status it was returned on.
C5_CostMinimal ==
    (SelectorReturned /\ SelectionReturned) =>
        \A y \in ServingVectors(filtered_recipes) :
            MeetsContract(y, filtered_recipes, user_preferences, 8, 12) =>
                PlanTotal(optimized_plan, Cost)
                    <= PlanTotal(SelectionOver(filtered_recipes, y), Cost)

\* C6: when no serving vector meets the constraints with the 20% band but
\* one meets them with the band widened to 30%, a relaxation pass finds it
\* and a non-empty Selection is returned.
C6_RelaxationPass ==
    ( /\ SelectorReturned
      /\ ~\E y \in ServingVectors(filtered_recipes) :
             MeetsContract(y, filtered_recipes, user_preferences, 8, 12)
      /\ \E y \in ServingVectors(filtered_recipes) :
             MeetsContract(y, filtered_recipes, user_preferences, 7, 13) )
    => optimized_plan # << >>

\* combinations of 21 or more servings exist, and weekly_budget is below the
\* cost of every one of them
BudgetTooLow ==
    LET Combination(y) ==
            PlanTotal(SelectionOver(filtered_recipes, y), One) >= 21
    IN /\ \E y \in ServingVectors(filtered_recipes) : Combination(y)
       /\ \A y \in ServingVectors(filtered_recipes) :
             Combination(y) =>
                 PlanTotal(SelectionOver(filtered_recipes, y), Cost)
                     > user_preferences.weekly_budget

\* C7: when weekly_budget is too low for any 21-serving combination, what the
\* selector returns is not an empty Selection.
C7_InfeasibleIsDistinct ==
    (SelectorReturned /\ BudgetTooLow) => optimized_plan # << >>

DownstreamCalls == {"_create_daily_meals", "calculate_grocery_list",
                    "optimize_grocery_list"}

\* C8: when the selector yields no Selection, the scheduler and the grocery
\* steps are never executed and the run ends in an error (the selector's
\* exception or "Could not generate a meal plan"); when
\* one of them executes, the selector has returned before it with a non-empty
\* Selection.
C8_SelectorFailureIsFatal ==
    /\ (Called("optimize_meal_plan") /\ optimized_plan = << >>) =>
          /\ \A f \in DownstreamCalls : ~Called(f)
          /\ pc \in {"optimized", "error"}
          /\ pc = "error" =>
                error \in {"Could not generate a meal plan within your constraints",
                           "TypeError"}
    /\ \A i \in 1..Len(calls) :
          calls[i] \in DownstreamCalls =>
              /\ \E j \in 1..(i - 1) : calls[j] = "optimize_meal_plan"
              /\ optimized_plan # << >>

\* a run that ended in the selector's error
C8_Witness ==
    /\ Called("optimize_meal_plan") /\ optimized_plan = << >>
    /\ pc = "error"
    /\ error = "Could not generate a meal plan within your constraints"

\* C9: when the pool is empty after filtering, the run is rejected with an
\* error at once and optimize_meal_plan is never invoked.
C9_EmptyPoolRejected ==
    (Called("filter_recipes") /\ filtered_recipes = << >>) =>
        /\ ~Called("optimize_meal_plan")
        /\ status = "NONE"
        /\ pc \in {"filtered", "error"}
        /\ pc = "error" =>
              error = "No recipes match your preferences and constraints"

\* a run rejected for an empty pool
C9_Witness ==
    /\ Called("filter_recipes") /\ filtered_recipes = << >>
    /\ pc = "error"
    /\ error = "No recipes match your preferences and constraints"

\* the servings a Selection gives to one recipe
ServingsOf(plan, recipe) ==
    LET c[i \in 0..Len(plan)] ==
            IF i = 0 THEN 0
            ELSE IF plan[i][1] = recipe THEN c[i - 1] + plan[i][2] ELSE c[i - 1]
    IN c[Len(plan)]

FilledSlots == {k \in 1..Len(assigned_recipes) : assigned_recipes[k] # None}

\* C10: for a Selection of N servings the scheduler fills exactly the first
\* min(21, N) slots in day-major, breakfast/lunch/dinner order, one occurrence
\* each, leaves the later slots empty, places no recipe more often than its
\* servings and leaves the surplus of N over 21 unplaced.
C10_SlotsFilled ==
    LET N == PlanTotal(optimized_plan, One)
    IN /\ pc = "scheduling" => FilledSlots = 1..Min(meal_pos, N)
       /\ pc = "scheduled" =>
             /\ Len(assigned_recipes) = 21
             /\ FilledSlots = 1..Min(21, N)
             /\ \A r \in RecipeIds :
                   Cardinality({k \in FilledSlots : assigned_recipes[k] = r})
                       <= ServingsOf(optimized_plan, r)
             /\ Len(recipe_assignments) = N - Min(21, N)
             /\ Len(daily_meals) = 7
             /\ \A d \in 1..7 :
                   LET meals == daily_meals[d].meals
                   IN /\ Len(meals) = Cardinality(FilledSlots \cap (3 * d - 2)..(3 * d))
                      /\ \A j \in 1..Len(meals) :
                            /\ meals[j].recipe = assigned_recipes[3 * (d - 1) + j]
                            /\ meals[j].meal_type = meal_types[j]
                            /\ meals[j].day = day_names[d]

\* a week scheduled from a Selection of 23 servings: 21 placed, 2 left over
C10_Witness ==
    /\ pc = "scheduled"
    /\ PlanTotal(optimized_plan, One) = 23
    /\ Len(recipe_assignments) = 2
    /\ FilledSlots = 1..21

\* a week scheduled from a Selection of 7 servings: the pool runs out
C10_PartialWeek ==
    /\ pc = "scheduled"
    /\ PlanTotal(optimized_plan, One) = 7
    /\ FilledSlots = 1..7
    /\ daily_meals[3].meals # << >> /\ Len(daily_meals[3].meals) = 1
    /\ daily_meals[4].meals = << >>

\* the score of the occurrence at position k of the pool, against the tracker
ScoreAt(k) ==
    _score_recipe_for_assignment(recipe_assignments[k], ingredient_usage_tracker)

\* position k holds the first occurrence of maximum score in the pool
FirstMaximal(k) ==
    /\ \A j \in 1..Len(recipe_assignments) : ScoreAt(j) <= ScoreAt(k)
    /\ \A j \in 1..(k - 1) : ScoreAt(j) < ScoreAt(k)

\* the pool without its position k
Without(pool, k) ==
    [j \in 1..(Len(pool) - 1) |-> IF j < k THEN pool[j] ELSE pool[j + 1]]

\* C11: at every scheduling step with a non-empty pool the occurrence placed
\* into the current slot is the first one of maximum score in the pool, and
\* it is removed from the pool.
C11_FirstMaximalWins ==
    [][ (pc = "scheduling" /\ meal_pos < NumSlots /\ recipe_assignments # << >>) =>
            \E k \in 1..Len(recipe_assignments) :
                /\ FirstMaximal(k)
                /\ assigned_recipes'[meal_pos + 1] = recipe_assignments[k]
                /\ recipe_assignments' = Without(recipe_assignments, k) ]_vars

\* the second slot was filled from a later position of the pool: it holds a
\* recipe other than the one that stood first after the first placement
C11_Witness ==
    /\ pc = "scheduling" /\ meal_pos >= 2
    /\ Len(ExpandAssignments(optimized_plan)) >= 3
    /\ assigned_recipes[1] = ExpandAssignments(optimized_plan)[1]
    /\ assigned_recipes[2] # ExpandAssignments(optimized_plan)[2]

\* the slot-to-recipe Assignment as the caller receives it: per day, the
\* (day, meal type, recipe) of every filled slot
AssignmentOf(meals_by_day) == [d \in 1..Len(meals_by_day) |-> meals_by_day[d].meals]

\* the second call on the same Selection has filled its last slot
SecondRunDone == Len(calls) = 2 /\ pc = "scheduling" /\ meal_pos = NumSlots

\* C12: a second run of _create_daily_meals on the same Selection, in the
\* same expansion order, ends with the same Assignment as the first, slot by
\* slot, and after it has returned the caller holds the same Assignment.
C12_Deterministic ==
    /\ SecondRunDone =>
          AssignmentOf(ConvertDailyMeals(assigned_recipes, 0)) = AssignmentOf(daily_meals)
    /\ (Len(calls) = 2 /\ pc = "scheduled") =>
          AssignmentOf(daily_meals) = AssignmentOf(ConvertDailyMeals(assigned_recipes, 0))

\* a second run is complete on a Selection whose first run placed an
\* occurrence from a later position of the pool, the first run having left
\* a non-empty tracker behind
C12_Witness ==
    /\ SecondRunDone
    /\ Len(ExpandAssignments(optimized_plan)) >= 3
    /\ assigned_recipes[2] # ExpandAssignments(optimized_plan)[2]
    /\ daily_meals[1].meals # << >>

\* the reuse count of a recipe: how many of its distinct ingredient names
\* are already in the usage counter
ReuseCount(recipe) ==
    Cardinality({_recipes[recipe].ingredients[k].name :
                     k \in 1..Len(_recipes[recipe].ingredients)}
                \cap DOMAIN ingredient_usage_tracker)

\* C13: at any scheduling step, of two candidate occurrences scored against
\* the same usage counter the one with the strictly higher reuse count is
\* never given the lower score.
C13_ReuseMonotone ==
    (pc = "scheduling" /\ meal_pos < NumSlots) =>
        \A i, j \in 1..Len(recipe_assignments) :
            ReuseCount(recipe_assignments[i]) > ReuseCount(recipe_assignments[j])
                => ScoreAt(i) >= ScoreAt(j)

\* the MealPlan constructor has been called
MealPlanBuilt == meal_plan # NoneDict

\* C14: week_start_date is the next Monday strictly after the day read as
\* today: a Monday, 1 to 7 days later, and today + 7 when today is a Monday.
C14_NextMonday ==
    MealPlanBuilt =>
        LET start == meal_plan.week_start_date
            t     == today[1]
        IN /\ Weekday(start) = 0
           /\ start - t \in 1..7
           /\ Weekday(t) = 0 => start = t + 7

\* a plan built on a Monday: its week starts 7 days later
C14_Witness ==
    /\ MealPlanBuilt
    /\ Weekday(today[1]) = 0
    /\ meal_plan.week_start_date = today[1] + 7

\* optimize_grocery_list has returned a plan, in single-store or multi-store mode
SinglePlanReturned == optimized_grocery # NoneDict /\ optimized_grocery.single_store_mode

MultiPlanReturned == optimized_grocery # NoneDict /\ ~optimized_grocery.single_store_mode

\* the ingredient name of the basket key at position k
BasketName(k) == grocery_list[k].key[1]

\* the positions of the catalog entries for an ingredient name, compared
\* without regard to case
EntriesFor(name) ==
    {i \in 1..Len(price_database.prices) :
        Lower(price_database.prices[i].ingredient) = Lower(name)}

EntriesAt(name, store_id) ==
    {i \in EntriesFor(name) : price_database.prices[i].store_id = store_id}

\* the store has a price entry for every basket ingredient
Eligible(store_id) ==
    \A k \in 1..Len(grocery_list) : EntriesAt(BasketName(k), store_id) # {}

\* the price the store asks for an ingredient it lists
PriceAt(name, store_id) ==
    price_database.prices[CHOOSE i \in EntriesAt(name, store_id) :
                             \A j \in EntriesAt(name, store_id) : i <= j].price_per_unit

\* sum of price-per-unit x quantity over the basket keys the store lists
BasketTotalAt(store_id) ==
    LET t[k \in 0..Len(grocery_list)] ==
            IF k = 0 THEN 0
            ELSE IF EntriesAt(BasketName(k), store_id) = {} THEN t[k - 1]
                 ELSE t[k - 1] + PriceAt(BasketName(k), store_id) * grocery_list[k].value
    IN t[Len(grocery_list)]

CatalogStores == 1..Len(price_database.stores)

StoreId(n) == price_database.stores[n].id

SomeStoreEligible == \E n \in CatalogStores : Eligible(StoreId(n))

\* C15: in single-store mode, when some store lists every basket ingredient,
\* the selected store is the first store in catalog order among the eligible
\* stores of lowest basket total; a store that lacks an entry is not selected.
C15_CheapestEligibleStore ==
    (SinglePlanReturned /\ SomeStoreEligible) =>
        \E n \in CatalogStores :
            /\ optimized_grocery.selected_store = price_database.stores[n]
            /\ Eligible(StoreId(n))
            /\ \A m \in CatalogStores :
                  Eligible(StoreId(m)) =>
                      /\ BasketTotalAt(StoreId(n)) <= BasketTotalAt(StoreId(m))
                      /\ m < n => BasketTotalAt(StoreId(n)) < BasketTotalAt(StoreId(m))

\* the second store is selected although the first, which lacks an entry,
\* has the lower partial total
C15_Witness ==
    /\ SinglePlanReturned
    /\ Len(price_database.stores) >= 2
    /\ optimized_grocery.selected_store = price_database.stores[2]
    /\ ~Eligible(StoreId(1))
    /\ BasketTotalAt(StoreId(1)) < BasketTotalAt(StoreId(2))
    /\ BasketTotalAt(StoreId(1)) > 0

\* the keys every plan dict is built with
PlanKeys ==
    {"single_store_mode", "selected_store", "stores_used", "total_cost",
     "items_by_store", "items_by_section", "substitutions", "cost_savings"}

\* the plan carries a key of its own that marks it
Flagged(plan) == DOMAIN plan \ PlanKeys # {}

\* no store lists every basket ingredient, and the catalog has stores
FallbackCase ==
    /\ SinglePlanReturned
    /\ price_database.stores # << >>
    /\ ~SomeStoreEligible

\* C16: in single-store mode, when no store lists every basket ingredient,
\* the plan falls back to the first store of the catalog and carries a flag
\* or warning that marks it as best-effort.
C16_FallbackFlagged ==
    FallbackCase =>
        /\ optimized_grocery.selected_store = price_database.stores[1]
        /\ Flagged(optimized_grocery)

\* the line items of the single-store plan
SingleItems == optimized_grocery.items_by_store[1].value

\* the first catalog entry of the selected store for an ingredient name
SelectedEntry(name) ==
    LET at == EntriesAt(name, optimized_grocery.selected_store.id)
    IN price_database.prices[CHOOSE i \in at : \A j \in at : i <= j]

SumOfTotals(items) ==
    LET t[k \in 0..Len(items)] ==
            IF k = 0 THEN 0 ELSE t[k - 1] + items[k].total_price
    IN t[Len(items)]

\* C17: the single-store plan holds one line item per basket key, in basket
\* order; an ingredient listed at the selected store carries that entry's
\* unit, unit price and section, one not listed carries unit price 0.10 and
\* section "unknown"; the line total is unit price x quantity in both cases
\* and every line total is part of total_cost.
C17_OneItemPerKey ==
    SinglePlanReturned =>
        /\ Len(optimized_grocery.items_by_store) = 1
        /\ optimized_grocery.items_by_store[1].key = optimized_grocery.selected_store.id
        /\ Len(SingleItems) = Len(grocery_list)
        /\ \A k \in 1..Len(grocery_list) :
              LET item == SingleItems[k]
                  listed == EntriesAt(BasketName(k),
                                      optimized_grocery.selected_store.id) # {}
              IN /\ item.name = BasketName(k)
                 /\ item.quantity = grocery_list[k].value
                 /\ item.total_price = item.unit_price * item.quantity
                 /\ listed =>
                       /\ item.unit = SelectedEntry(BasketName(k)).unit
                       /\ item.unit_price = SelectedEntry(BasketName(k)).price_per_unit
                       /\ item.section = SelectedEntry(BasketName(k)).section
                 /\ ~listed =>
                       /\ item.unit_price = 100
                       /\ item.section = "unknown"
        /\ optimized_grocery.total_cost = SumOfTotals(SingleItems)

\* a plan of three line items: one priced from the catalog, one the selected
\* store does not list although another store does, one listed nowhere
C17_Witness ==
    /\ SinglePlanReturned
    /\ Len(SingleItems) = 3
    /\ \E k \in 1..3 : SingleItems[k].section = "meat"
    /\ \E k \in 1..3 :
          /\ SingleItems[k].section = "unknown"
          /\ EntriesFor(BasketName(k)) # {}
    /\ \E k \in 1..3 : EntriesFor(BasketName(k)) = {}

\* the UnpricedIngredient warnings of a plan: the names it records
UnpricedWarnings(plan) ==
    IF "warnings" \in DOMAIN plan THEN plan.warnings ELSE {}

\* C18: for every basket ingredient listed nowhere in the catalog the
\* returned plan records, in either mode, a warning naming that item.
C18_UnpricedRecorded ==
    optimized_grocery # NoneDict =>
        \A k \in 1..Len(grocery_list) :
            EntriesFor(BasketName(k)) = {} =>
                BasketName(k) \in UnpricedWarnings(optimized_grocery)

\* the first catalog entry, in catalog order, of the lowest price-per-unit
\* among all entries for an ingredient name
CheapestEntry(name) ==
    LET all == EntriesFor(name)
        low == {i \in all : \A j \in all :
                   price_database.prices[i].price_per_unit
                       <= price_database.prices[j].price_per_unit}
    IN price_database.prices[CHOOSE i \in low : \A j \in low : i <= j]

\* the line items of the plan under a store id, and the store ids that hold
\* a line item of a given name
BucketOf(store_id) ==
    LET hit == {b \in 1..Len(optimized_grocery.items_by_store) :
                   optimized_grocery.items_by_store[b].key = store_id}
    IN IF hit = {} THEN << >>
       ELSE optimized_grocery.items_by_store[CHOOSE b \in hit : TRUE].value

BucketsHolding(name) ==
    {optimized_grocery.items_by_store[b].key :
        b \in {c \in 1..Len(optimized_grocery.items_by_store) :
                  \E n \in 1..Len(optimized_grocery.items_by_store[c].value) :
                      optimized_grocery.items_by_store[c].value[n].name = name}}

HasItem(items, item) == \E n \in 1..Len(items) : items[n] = item

\* C19: in multi-store mode every basket ingredient that has a price entry
\* goes, whatever else is in the basket, to the store of its cheapest entry,
\* the first such entry in catalog order when several are equally cheap, and
\* its line item is held under that store's id and under no other.
C19_CheapestEntryWins ==
    MultiPlanReturned =>
        \A k \in 1..Len(grocery_list) :
            EntriesFor(BasketName(k)) # {} =>
                LET e == CheapestEntry(BasketName(k))
                IN /\ BucketsHolding(BasketName(k)) = {e.store_id}
                   /\ HasItem(BucketOf(e.store_id),
                              [name |-> BasketName(k),
                               quantity |-> grocery_list[k].value,
                               unit |-> e.unit,
                               unit_price |-> e.price_per_unit,
                               total_price |-> e.price_per_unit * grocery_list[k].value,
                               section |-> e.section])

\* two stores ask the same lowest price for an ingredient and the one listed
\* first in the catalog is the second store; the item is held under it
C19_Witness ==
    /\ MultiPlanReturned
    /\ \E k \in 1..Len(grocery_list) :
          /\ Cardinality(EntriesFor(BasketName(k))) = 2
          /\ \A i, j \in EntriesFor(BasketName(k)) :
                price_database.prices[i].price_per_unit
                    = price_database.prices[j].price_per_unit
          /\ CheapestEntry(BasketName(k)).store_id = "store_2"
          /\ BucketsHolding(BasketName(k)) = {"store_2"}

\* the basket position holds an ingredient listed nowhere in the catalog
Unpriced(k) == EntriesFor(BasketName(k)) = {}

\* the store grouping that exists first: that of the first basket key
FirstGrouping ==
    IF Unpriced(1) THEN "default" ELSE CheapestEntry(BasketName(1)).store_id

\* C20: in multi-store mode a basket ingredient listed nowhere is priced at
\* 0.10 per unit with section "unknown" and is held in the grouping that
\* exists first at that point of the iteration, "default" when there is
\* none yet; stores_used lists the groupings, "default" included.
C20_UnpricedBucket ==
    MultiPlanReturned =>
        /\ optimized_grocery.stores_used =
               [b \in 1..Len(optimized_grocery.items_by_store) |->
                   optimized_grocery.items_by_store[b].key]
        /\ \A k \in 1..Len(grocery_list) :
              Unpriced(k) =>
                  /\ BucketsHolding(BasketName(k)) = {FirstGrouping}
                  /\ optimized_grocery.items_by_store[1].key = FirstGrouping
                  /\ HasItem(optimized_grocery.items_by_store[1].value,
                             [name |-> BasketName(k),
                              quantity |-> grocery_list[k].value,
                              unit |-> "g",
                              unit_price |-> 100,
                              total_price |-> 100 * grocery_list[k].value,
                              section |-> "unknown"])

Reverse(seq) == [i \in 1..Len(seq) |-> seq[Len(seq) + 1 - i]]

\* an unpriced ingredient iterated first lands in "default", which no store
\* of the catalog is called, next to a real store in stores_used; the same
\* basket iterated in reverse puts it under a store of the catalog
C20_Witness ==
    /\ MultiPlanReturned
    /\ Len(grocery_list) >= 2
    /\ Unpriced(1)
    /\ Len(optimized_grocery.stores_used) >= 2
    /\ optimized_grocery.stores_used[1] = "default"
    /\ \A n \in CatalogStores : StoreId(n) # "default"
    /\ optimize_grocery_list(price_database, Reverse(grocery_list), FALSE).stores_used
           = <<optimized_grocery.stores_used[2]>>

\* the cheapest entry of an ingredient and the next one in ascending order
\* of price (entries of equal price in catalog order)
SecondEntry(name) ==
    LET first == CHOOSE i \in EntriesFor(name) :
                     price_database.prices[i] = CheapestEntry(name)
                     /\ \A j \in EntriesFor(name) :
                           price_database.prices[j] = CheapestEntry(name) => i <= j
        rest == EntriesFor(name) \ {first}
        low  == {i \in rest : \A j \in rest :
                    price_database.prices[i].price_per_unit
                        <= price_database.prices[j].price_per_unit}
    IN price_database.prices[CHOOSE i \in low : \A j \in low : i <= j]

\* the second price is below 0.9 x the first
SubstitutionDue(name) ==
    /\ Cardinality(EntriesFor(name)) >= 2
    /\ 10 * SecondEntry(name).price_per_unit < 9 * CheapestEntry(name).price_per_unit

StoreNameOf(store_id) ==
    IF \E n \in CatalogStores : StoreId(n) = store_id
    THEN price_database.stores[CHOOSE n \in CatalogStores :
                                  /\ StoreId(n) = store_id
                                  /\ \A m \in CatalogStores :
                                        StoreId(m) = store_id => n <= m].name
    ELSE "Unknown Store"

RecordsFor(name) ==
    {r \in 1..Len(optimized_grocery.substitutions) :
        optimized_grocery.substitutions[r].original_item = name}

ScenarioA ==
    /\ optimized_grocery # NoneDict
    /\ price_database = _price_database
    /\ \E k \in 1..Len(grocery_list) :
          grocery_list[k] = [key |-> <<"chicken breast", "g">>, value |-> 300]

\* C22: in Scenario A the substitutions of the plan hold a record that
\* recommends store_2, by name, with projected savings 6.0 (6000 mills) over
\* the 300 g.
C22_ScenarioA ==
    ScenarioA =>
        \E r \in 1..Len(optimized_grocery.substitutions) :
            /\ optimized_grocery.substitutions[r].original_item = "chicken breast"
            /\ optimized_grocery.substitutions[r].alternative_store
                   = _get_store_name(_price_database, "store_2")
            /\ optimized_grocery.substitutions[r].estimated_savings = 6000

\* the sum of total_price over the line items of every store grouping
SumOfAllItems(by_store) ==
    LET t[b \in 0..Len(by_store)] ==
            IF b = 0 THEN 0 ELSE t[b - 1] + SumOfTotals(by_store[b].value)
    IN t[Len(by_store)]

\* C23: in either mode the line totals of all items of all store groupings
\* of a plan add up to its total_cost, default-priced items and the
\* "default" grouping included.
C23_RoundTrip ==
    optimized_grocery # NoneDict =>
        SumOfAllItems(optimized_grocery.items_by_store) = optimized_grocery.total_cost

\* a multi-store plan whose groupings are "default" and two stores of the
\* catalog, with a default-priced item among three
C23_Witness ==
    /\ MultiPlanReturned
    /\ Len(optimized_grocery.items_by_store) = 3
    /\ optimized_grocery.items_by_store[1].key = "default"
    /\ optimized_grocery.total_cost > 200

\* C24: no request's loader returns an empty recipe table or an empty price
\* database: every loader that has returned has read a file written in full.
C24_LoadersComplete ==
    \A r \in Requests :
        /\ load_result[r]["recipes"] # "none" => LoadedRecipes(r) # << >>
        /\ load_result[r]["prices"] # "none" => LoadedPrices(r) # EmptyCatalog

\* calculate_grocery_list has returned
Listed == \E i \in 1..Len(calls) : calls[i] = "calculate_grocery_list"

\* an amount in its canonical unit: grams for mass, milliliters for volume
CanonicalUnit(unit) ==
    CASE unit = "kg" -> "g"
      [] unit = "L" -> "ml"
      [] OTHER -> unit

CanonicalAmount(amount, unit) ==
    IF unit \in {"kg", "L"} THEN 1000 * amount ELSE amount

\* the amount of ingredient name in canonical unit u that the Selection needs
NormalizedNeed(name, u) ==
    LET OfRecipe(recipe) ==
            LET ings == _recipes[recipe].ingredients
                a[j \in 0..Len(ings)] ==
                    IF j = 0 THEN 0
                    ELSE a[j - 1]
                         + (IF ings[j].name = name /\ CanonicalUnit(ings[j].unit) = u
                            THEN CanonicalAmount(ings[j].amount, ings[j].unit) ELSE 0)
            IN a[Len(ings)]
        t[i \in 0..Len(optimized_plan)] ==
            IF i = 0 THEN 0
            ELSE t[i - 1] + OfRecipe(optimized_plan[i][1]) * optimized_plan[i][2]
    IN t[Len(optimized_plan)]

\* C25: every key of the basket is in a canonical unit (g or ml), its
\* quantity is the sum of amount x servings over the Selection after
\* conversion to that unit, and no ingredient has keys in two units of the
\* same kind.
C25_CanonicalBasket ==
    Listed =>
        \A k \in 1..Len(grocery_list) :
            /\ grocery_list[k].key[2] = CanonicalUnit(grocery_list[k].key[2])
            /\ grocery_list[k].value
                   = NormalizedNeed(grocery_list[k].key[1], grocery_list[k].key[2])

\* C26: at every scheduling step the score of each occurrence of the pool is
\* 10 times the number of its distinct ingredient names present in the usage
\* counter (the other two terms add nothing), and is never negative.
C26_ScoreIsTenPerDistinct ==
    (pc = "scheduling" /\ meal_pos < NumSlots) =>
        \A k \in 1..Len(recipe_assignments) :
            /\ ScoreAt(k) = 10 * ReuseCount(recipe_assignments[k])
            /\ ScoreAt(k) >= 0

\* C27: whatever weekday the scheduler reads as today, Monday included, the
\* date of the i-th day of the Assignment is the week start computed from
\* that same day plus i: it falls on weekday i, after today.
C27_DatesFollowWeekStart ==
    pc = "scheduled" =>
        \A i \in 1..Len(daily_meals) :
            /\ daily_meals[i].date = WeekStartDate(today[1]) + (i - 1)
            /\ Weekday(daily_meals[i].date) = i - 1
            /\ daily_meals[i].date > today[1]

\* no price of the catalog is negative
NonNegativeCatalog ==
    \A i \in 1..Len(price_database.prices) :
        price_database.prices[i].price_per_unit >= 0

C29_MultiNotDearer ==
    optimized_grocery # NoneDict =>
        optimize_grocery_list(price_database, grocery_list, FALSE).total_cost
            <= optimize_grocery_list(price_database, grocery_list, TRUE).total_cost

\* C30: the total_cost handed to the MealPlan does not exceed the request's
\* weekly_budget.
C30_ReportedCostWithinBudget ==
    MealPlanBuilt => meal_plan.total_cost <= user_preferences.weekly_budget

====
